---- MODULE Spec2Model ----
(***************************************************************************)
(* Model of src/StudentSolution.cpp: the hourly water-allocation policy    *)
(* solveProblems and its helpers computeSafeSurplus, computeDeficit,       *)
(* closeAllCanals, scheduleTransfer and the tryTransfer lambda.            *)
(*                                                                         *)
(* Numbers.  The source computes in double.  The model computes exactly,   *)
(* in fixed point: waterLevel, waterNeed and waterCapacity are whole       *)
(* volume units; every derived volume (deficit, surplus, amount) is an     *)
(* integer number of tenths of a unit, so 0.8, 0.3 and 3.6 are the         *)
(* integers 8, 3 and 36 over Scale; a flow-rate is an integer number of    *)
(* 1/MaxFlowRate per second, so the rate 1.0 is MaxFlowRate.  Rounding     *)
(* and underflow of IEEE doubles are outside the model.                    *)
(***************************************************************************)
EXTENDS Integers, Sequences, FiniteSets, TLC

VARIABLES regions, canals, hour, SimulationMax, isSolved,
          north, south, east, canalA, canalB, canalC, canalD,
          pc, attempt, ops, call

vars == <<regions, canals, hour, SimulationMax, isSolved,
          north, south, east, canalA, canalB, canalC, canalD,
          pc, attempt, ops, call>>

resolved == <<north, south, east, canalA, canalB, canalC, canalD>>

(***************************************************************************)
(* Bounds of the model.                                                    *)
(***************************************************************************)
MaxHour == 2
MaxLevelSteps == 2
MaxLevel == 7
MaxAmount == 40
MaxCanals == 3

(***************************************************************************)
(* Literals of the source, in the fixed-point units described above.       *)
(***************************************************************************)
NULL == 0
Scale == 10
NeedFactor == 8
CapFactor == 3
FloodFactor == 8
HourVolume == 36
MaxFlowRate == 360

Max2(a, b) == IF a >= b THEN a ELSE b
Min2(a, b) == IF a <= b THEN a ELSE b
Min3(a, b, c) == Min2(a, Min2(b, c))

(***************************************************************************)
(* computeSafeSurplus, in tenths.  r is an index into rs, or NULL.         *)
(* Two faulty variants come first: one stops at the margin floor and       *)
(* forgets the keep level, one forgets the region's need altogether.       *)
(***************************************************************************)
computeSafeSurplusFloorOnly(rs, r) ==
    IF r = NULL THEN 0
    ELSE LET minLevel == Max2(NeedFactor * rs[r].waterNeed,
                              CapFactor * rs[r].waterCapacity)
             level    == Scale * rs[r].waterLevel
         IN  IF level <= minLevel THEN 0 ELSE level - minLevel

computeSafeSurplusCapOnly(rs, r) ==
    IF r = NULL THEN 0
    ELSE LET minLevel == CapFactor * rs[r].waterCapacity
             level    == Scale * rs[r].waterLevel
         IN  IF level <= minLevel THEN 0 ELSE level - minLevel

computeSafeSurplus(rs, r) ==
    IF r = NULL THEN 0
    ELSE LET minLevelByNeed == NeedFactor * rs[r].waterNeed
             minLevelByCap  == CapFactor * rs[r].waterCapacity
             minLevel       == Max2(minLevelByNeed, minLevelByCap)
             level          == Scale * rs[r].waterLevel
         IN  IF level <= minLevel THEN 0
             ELSE LET keepLevel == Max2(minLevel, Scale * rs[r].waterNeed)
                  IN  IF level <= keepLevel THEN 0
                      ELSE level - keepLevel

(***************************************************************************)
(* computeDeficit, in tenths.                                              *)
(***************************************************************************)
computeDeficit(rs, r) ==
    IF r = NULL THEN 0
    ELSE IF rs[r].waterLevel >= rs[r].waterNeed THEN 0
    ELSE Scale * (rs[r].waterNeed - rs[r].waterLevel)

(***************************************************************************)
(* closeAllCanals: every canal of the collection gets rate 0 and is shut.  *)
(* The faulty variant shuts the gates and leaves the rates.                *)
(***************************************************************************)
closeAllCanalsGateOnly(cs) ==
    [i \in DOMAIN cs |-> [cs[i] EXCEPT !.isOpen = FALSE]]

closeAllCanals(cs) ==
    [i \in DOMAIN cs |-> [cs[i] EXCEPT !.flowRate = 0, !.isOpen = FALSE]]

(***************************************************************************)
(* scheduleTransfer: amount in tenths, canal an index into cs or NULL.     *)
(* flowRate = amount / 3.6, i.e. (amount/Scale) / (HourVolume/Scale), in   *)
(* units of 1/MaxFlowRate.  The faulty variant does not clamp the rate.    *)
(***************************************************************************)
scheduleTransferNoClamp(cs, canal, amount) ==
    IF canal = NULL \/ amount <= 0 THEN cs
    ELSE LET flowRate == (amount * MaxFlowRate) \div HourVolume
         IN  IF flowRate <= 0 THEN cs
             ELSE [cs EXCEPT ![canal].flowRate = flowRate,
                             ![canal].isOpen = TRUE]

scheduleTransfer(cs, canal, amount) ==
    IF canal = NULL \/ amount <= 0 THEN cs
    ELSE LET raw      == (amount * MaxFlowRate) \div HourVolume
             flowRate == IF raw > MaxFlowRate THEN MaxFlowRate ELSE raw
         IN  IF flowRate <= 0 THEN cs
             ELSE [cs EXCEPT ![canal].flowRate = flowRate,
                             ![canal].isOpen = TRUE]

(***************************************************************************)
(* The tryTransfer lambda.  tryTransferAmount is what it hands to          *)
(* scheduleTransfer: [called |-> FALSE, amount |-> 0] on every early       *)
(* return.                                                                 *)
(***************************************************************************)
NoTransfer == [called |-> FALSE, amount |-> 0]

\* faulty variant: the whole headroom instead of 80% of it
tryTransferAmountNoMargin(rs, src, dst, canal) ==
    IF src = NULL \/ dst = NULL \/ canal = NULL THEN NoTransfer
    ELSE LET need    == computeDeficit(rs, dst)
             surplus == computeSafeSurplus(rs, src)
         IN  IF need <= 0 \/ surplus <= 0 THEN NoTransfer
             ELSE LET maxBeforeFlood ==
                          Scale * (rs[dst].waterCapacity - rs[dst].waterLevel)
                  IN  IF maxBeforeFlood <= 0 THEN NoTransfer
                      ELSE [called |-> TRUE,
                            amount |-> Min3(need, surplus, maxBeforeFlood)]

tryTransferAmount(rs, src, dst, canal) ==
    IF src = NULL \/ dst = NULL \/ canal = NULL THEN NoTransfer
    ELSE LET need    == computeDeficit(rs, dst)
             surplus == computeSafeSurplus(rs, src)
         IN  IF need <= 0 \/ surplus <= 0 THEN NoTransfer
             ELSE LET maxBeforeFlood ==
                          Scale * (rs[dst].waterCapacity - rs[dst].waterLevel)
                  IN  IF maxBeforeFlood <= 0 THEN NoTransfer
                      ELSE LET amount == Min3(need, surplus,
                                   (maxBeforeFlood * FloodFactor) \div Scale)
                           IN  IF amount <= 0 THEN NoTransfer
                               ELSE [called |-> TRUE, amount |-> amount]

tryTransfer(cs, rs, src, dst, canal) ==
    LET t == tryTransferAmount(rs, src, dst, canal)
    IN  IF t.called THEN scheduleTransfer(cs, canal, t.amount) ELSE cs

(***************************************************************************)
(* Identity resolution (lines 81-102).  A region matches by exact name; a  *)
(* canal takes the first of the keys "A", "B", "C", "D" that occurs in its *)
(* name (the else-if chain).  Both loops overwrite, so the last matching   *)
(* element of the collection wins.  A canal name is a tuple of characters. *)
(***************************************************************************)
find(name, key) ==
    \E i \in 1..(Len(name) - Len(key) + 1) :
        SubSeq(name, i, i + Len(key) - 1) = key

canalKey(name) ==
    IF find(name, <<"A">>) THEN "A"
    ELSE IF find(name, <<"B">>) THEN "B"
    ELSE IF find(name, <<"C">>) THEN "C"
    ELSE IF find(name, <<"D">>) THEN "D"
    ELSE "none"

RECURSIVE resolveRegion(_, _, _, _)
resolveRegion(rs, nm, i, found) ==
    IF i > Len(rs) THEN found
    ELSE resolveRegion(rs, nm, i + 1, IF rs[i].name = nm THEN i ELSE found)

RECURSIVE resolveCanal(_, _, _, _)
resolveCanal(cs, key, i, found) ==
    IF i > Len(cs) THEN found
    ELSE resolveCanal(cs, key, i + 1,
                      IF canalKey(cs[i].name) = key THEN i ELSE found)

(***************************************************************************)
(* The four attempts of one pass, in the order of lines 142-145.  The      *)
(* faulty variant tries South->East before North->East.                    *)
(***************************************************************************)
AttemptsSwapped ==
    << [src |-> "north", dst |-> "south", canal |-> "A"],
       [src |-> "south", dst |-> "east",  canal |-> "B"],
       [src |-> "north", dst |-> "east",  canal |-> "C"],
       [src |-> "east",  dst |-> "north", canal |-> "D"] >>

Attempts ==
    << [src |-> "north", dst |-> "south", canal |-> "A"],
       [src |-> "north", dst |-> "east",  canal |-> "C"],
       [src |-> "south", dst |-> "east",  canal |-> "B"],
       [src |-> "east",  dst |-> "north", canal |-> "D"] >>

regionOf(role) ==
    CASE role = "north" -> north
      [] role = "south" -> south
      [] role = "east"  -> east

canalOf(key) ==
    CASE key = "A" -> canalA
      [] key = "B" -> canalB
      [] key = "C" -> canalC
      [] key = "D" -> canalD

NoCall == [fn |-> "none"]

(***************************************************************************)
(* solveProblems, one action per step.                                     *)
(***************************************************************************)
ResolveIdentities ==
    /\ pc = "resolve"
    /\ north'  = resolveRegion(regions, "North", 1, NULL)
    /\ south'  = resolveRegion(regions, "South", 1, NULL)
    /\ east'   = resolveRegion(regions, "East", 1, NULL)
    /\ canalA' = resolveCanal(canals, "A", 1, NULL)
    /\ canalB' = resolveCanal(canals, "B", 1, NULL)
    /\ canalC' = resolveCanal(canals, "C", 1, NULL)
    /\ canalD' = resolveCanal(canals, "D", 1, NULL)
    /\ pc' = "while"
    /\ UNCHANGED <<regions, canals, hour, SimulationMax, isSolved,
                   attempt, ops, call>>

WhileEnter ==
    /\ pc = "while"
    /\ ~isSolved /\ hour # SimulationMax
    /\ pc' = "closeAllCanals"
    /\ ops' = <<>>
    /\ UNCHANGED <<regions, canals, hour, SimulationMax, isSolved,
                   resolved, attempt, call>>

WhileExit ==
    /\ pc = "while"
    /\ ~(~isSolved /\ hour # SimulationMax)
    /\ pc' = "done"
    /\ UNCHANGED <<regions, canals, hour, SimulationMax, isSolved,
                   resolved, attempt, ops, call>>

CloseAllCanals ==
    /\ pc = "closeAllCanals"
    /\ canals' = closeAllCanals(canals)
    /\ ops' = Append(ops, <<"closeAllCanals">>)
    /\ attempt' = 1
    /\ pc' = "tryTransfer"
    /\ UNCHANGED <<regions, hour, SimulationMax, isSolved, resolved, call>>

TryTransfer ==
    /\ pc = "tryTransfer"
    /\ LET a == Attempts[attempt]
       IN  /\ canals' = tryTransfer(canals, regions, regionOf(a.src),
                                    regionOf(a.dst), canalOf(a.canal))
           /\ ops' = Append(ops, <<a.src, a.dst>>)
    /\ IF attempt < Len(Attempts)
          THEN attempt' = attempt + 1 /\ pc' = "tryTransfer"
          ELSE attempt' = 0 /\ pc' = "nexthour"
    /\ UNCHANGED <<regions, hour, SimulationMax, isSolved, resolved, call>>

(***************************************************************************)
(* manager.nexthour(): the engine.  It advances hour by one, may change    *)
(* every waterLevel and may set isSolved; it leaves the canal settings,    *)
(* waterNeed and waterCapacity alone.                                      *)
(***************************************************************************)
Levels == {4 * k : k \in 0..MaxLevelSteps}

nexthour ==
    /\ pc = "nexthour"
    /\ hour < MaxHour
    /\ hour' = hour + 1
    /\ isSolved' \in BOOLEAN
    /\ \E lv \in [DOMAIN regions -> Levels] :
           regions' = [i \in DOMAIN regions |->
                          [regions[i] EXCEPT !.waterLevel = lv[i]]]
    /\ ops' = <<>>
    /\ pc' = "while"
    /\ UNCHANGED <<canals, SimulationMax, resolved, attempt, call>>

Next ==
    \/ ResolveIdentities
    \/ WhileEnter
    \/ WhileExit
    \/ CloseAllCanals
    \/ TryTransfer
    \/ nexthour

(***************************************************************************)
(* Scenarios of the program specification.                                 *)
(***************************************************************************)
Region(nm, lvl, need, cap) ==
    [name |-> nm, waterLevel |-> lvl, waterNeed |-> need, waterCapacity |-> cap]

Canal(nm, id, rate, open) ==
    [name |-> nm, id |-> id, flowRate |-> rate, isOpen |-> open]

Profile(need, cap) == [waterNeed |-> need, waterCapacity |-> cap]

Scenarios ==
    { <<Profile(2, 4), Profile(2, 4), Profile(2, 4)>>,
      <<Profile(2, 4), Profile(2, 4), Profile(8, 8)>>,
      <<Profile(2, 4), Profile(6, 4), Profile(2, 4)>> }

RegionOrders ==
    { <<"North", "South", "East">>, <<"East", "North", "South">> }

CanalOrders ==
    { << <<"A">>, <<"B">>, <<"C">>, <<"D">> >>,
      << <<"D">>, <<"x">>, <<"C">>, <<"B">>, <<"A">> >>,
      << <<"x">>, <<"A">>, <<"C">> >> }

roleIndex(nm) ==
    CASE nm = "North" -> 1
      [] nm = "South" -> 2
      [] nm = "East"  -> 3

Init ==
    /\ \E sc \in Scenarios, ord \in RegionOrders, lv \in [1..3 -> Levels] :
           regions = [i \in 1..Len(ord) |->
                         Region(ord[i], lv[i],
                                sc[roleIndex(ord[i])].waterNeed,
                                sc[roleIndex(ord[i])].waterCapacity)]
    /\ \E names \in CanalOrders, open \in BOOLEAN :
           canals = [i \in 1..Len(names) |->
                        Canal(names[i], i, IF open THEN MaxFlowRate ELSE 0, open)]
    /\ hour \in 0..MaxHour
    /\ SimulationMax \in 0..MaxHour
    /\ isSolved \in BOOLEAN
    /\ north = NULL /\ south = NULL /\ east = NULL
    /\ canalA = NULL /\ canalB = NULL /\ canalC = NULL /\ canalD = NULL
    /\ pc = "resolve"
    /\ attempt = 0
    /\ ops = <<>>
    /\ call = NoCall

Spec == Init /\ [][Next]_vars

(***************************************************************************)
(* Identity resolution alone, over collections in every order: regions     *)
(* with unique names, canals with names of CanalNames.                     *)
(***************************************************************************)
RegionNames == {"North", "South", "East"}

CanalNames ==
    { <<"A">>, <<"B">>, <<"C">>, <<"D">>, <<"A", "B">>, <<"x">>,
      <<"C", "a", "n", "a", "l", " ", "D">> }

SeqsUpTo(S, n) == UNION {[1..k -> S] : k \in 0..n}

Injective(f) == \A i, j \in DOMAIN f : i # j => f[i] # f[j]

InitResolve ==
    /\ \E ord \in {o \in SeqsUpTo(RegionNames, 3) : Len(o) >= 2 /\ Injective(o)} :
           regions = [i \in 1..Len(ord) |-> Region(ord[i], 4, 2, 4)]
    /\ \E names \in {n \in SeqsUpTo(CanalNames, MaxCanals) : Injective(n)} :
           canals = [i \in 1..Len(names) |-> Canal(names[i], i, 0, FALSE)]
    /\ hour = 0
    /\ SimulationMax = MaxHour
    /\ isSolved = FALSE
    /\ north = NULL /\ south = NULL /\ east = NULL
    /\ canalA = NULL /\ canalB = NULL /\ canalC = NULL /\ canalD = NULL
    /\ pc = "resolve"
    /\ attempt = 0
    /\ ops = <<>>
    /\ call = NoCall

NextResolve == ResolveIdentities

SpecResolve == InitResolve /\ [][NextResolve]_vars

(***************************************************************************)
(* The helpers called one at a time on drawn arguments.  call records the  *)
(* call: its arguments, what it returned or handed on, and the canals      *)
(* before it.                                                              *)
(***************************************************************************)
Needs == {2, 6}
Caps == {4, 8}
Rates == {0, 100, MaxFlowRate}

unitFrame == <<regions, hour, SimulationMax, isSolved, resolved, attempt, ops>>

CallComputeSafeSurplus ==
    /\ pc = "unit"
    /\ \E r \in {NULL} \cup DOMAIN regions :
           call' = [fn |-> "computeSafeSurplus", r |-> r,
                    ret |-> computeSafeSurplus(regions, r)]
    /\ pc' = "returned"
    /\ UNCHANGED <<canals, unitFrame>>

CallComputeDeficit ==
    /\ pc = "unit"
    /\ \E r \in {NULL} \cup DOMAIN regions :
           call' = [fn |-> "computeDeficit", r |-> r,
                    ret |-> computeDeficit(regions, r)]
    /\ pc' = "returned"
    /\ UNCHANGED <<canals, unitFrame>>

CallTryTransfer ==
    /\ pc = "unit"
    /\ \E src, dst \in {NULL} \cup DOMAIN regions, canal \in {NULL} \cup DOMAIN canals :
           /\ call' = [fn |-> "tryTransfer", src |-> src, dst |-> dst,
                       canal |-> canal, before |-> canals,
                       handed |-> tryTransferAmount(regions, src, dst, canal)]
           /\ canals' = tryTransfer(canals, regions, src, dst, canal)
    /\ pc' = "returned"
    /\ UNCHANGED unitFrame

CallScheduleTransfer ==
    /\ pc = "unit"
    /\ \E canal \in {NULL} \cup DOMAIN canals, amount \in (-MaxAmount)..MaxAmount :
           /\ call' = [fn |-> "scheduleTransfer", canal |-> canal,
                       amount |-> amount, before |-> canals]
           /\ canals' = scheduleTransfer(canals, canal, amount)
    /\ pc' = "returned"
    /\ UNCHANGED unitFrame

InitUnit ==
    /\ hour = 0
    /\ SimulationMax = MaxHour
    /\ isSolved = FALSE
    /\ north = NULL /\ south = NULL /\ east = NULL
    /\ canalA = NULL /\ canalB = NULL /\ canalC = NULL /\ canalD = NULL
    /\ pc = "unit"
    /\ attempt = 0
    /\ ops = <<>>
    /\ call = NoCall

InitTransfer ==
    /\ InitUnit
    /\ regions \in [1..2 -> {Region("r", l, n, c) :
                                l \in 0..MaxLevel, n \in Needs, c \in Caps}]
    /\ \E open \in BOOLEAN :
           canals = <<Canal(<<"A">>, 1, IF open THEN MaxFlowRate ELSE 0, open)>>

NextTransfer ==
    \/ CallComputeSafeSurplus
    \/ CallComputeDeficit
    \/ CallTryTransfer

SpecTransfer == InitTransfer /\ [][NextTransfer]_vars

InitSchedule ==
    /\ InitUnit
    /\ regions = <<Region("r", 4, 2, 4)>>
    /\ \E rate \in Rates, open \in BOOLEAN :
           canals = <<Canal(<<"A">>, 1, rate, open)>>

NextSchedule == CallScheduleTransfer

SpecSchedule == InitSchedule /\ [][NextSchedule]_vars

(***************************************************************************)
(* The quantities of the specification, stated independently of the code:  *)
(* all in tenths of a volume unit.                                         *)
(***************************************************************************)
Max3(a, b, c) == Max2(a, Max2(b, c))

KeepLevel(reg) ==
    Max3(NeedFactor * reg.waterNeed, CapFactor * reg.waterCapacity,
         Scale * reg.waterNeed)

SafeSurplus(reg) == Max2(0, Scale * reg.waterLevel - KeepLevel(reg))

Deficit(reg) == Max2(0, Scale * (reg.waterNeed - reg.waterLevel))

Headroom(reg) == Scale * (reg.waterCapacity - reg.waterLevel)

Proposes(srcReg, dstReg) ==
    Deficit(dstReg) > 0 /\ SafeSurplus(srcReg) > 0 /\ Headroom(dstReg) > 0

IsOpen(canal) == canal # NULL /\ canals[canal].isOpen

\* volume an open canal moves in one hour: 3.6 x flow-rate
Moved(canal) ==
    IF IsOpen(canal)
        THEN (canals[canal].flowRate * HourVolume) \div MaxFlowRate
        ELSE 0

InPass == pc \in {"closeAllCanals", "tryTransfer", "nexthour"}

AllPresent == north # NULL /\ south # NULL /\ east # NULL

(***************************************************************************)
(* C1: at every call of nexthour, for every region, the volume the open    *)
(* canals out of it will move this hour (North: North->South and           *)
(* North->East; South: South->East; East: East->North) is at most the      *)
(* region's safe surplus at the start of the hour.                         *)
(***************************************************************************)
C1_OutflowWithinSurplus ==
    (pc = "nexthour" /\ AllPresent) =>
        /\ Moved(canalA) + Moved(canalC) <= SafeSurplus(regions[north])
        /\ Moved(canalB) <= SafeSurplus(regions[south])
        /\ Moved(canalD) <= SafeSurplus(regions[east])

(***************************************************************************)
(* C2: at every call of nexthour, for every region, the volume the open    *)
(* canals into it will move this hour (East: North->East and South->East;  *)
(* South: North->South; North: East->North) does not exceed its headroom   *)
(* waterCapacity - waterLevel at the start of the hour.  A region into     *)
(* which nothing flows is left out, so that a region the engine has        *)
(* already filled above capacity does not count against the policy.        *)
(***************************************************************************)
C2_InflowWithinHeadroom ==
    (pc = "nexthour" /\ AllPresent) =>
        /\ Moved(canalC) + Moved(canalB) > 0 =>
               Moved(canalC) + Moved(canalB) <= Headroom(regions[east])
        /\ Moved(canalA) > 0 => Moved(canalA) <= Headroom(regions[south])
        /\ Moved(canalD) > 0 => Moved(canalD) <= Headroom(regions[north])

(***************************************************************************)
(* C3: with source, destination and canal all present, tryTransfer hands   *)
(* an amount to scheduleTransfer exactly when deficit d > 0, safe surplus  *)
(* s > 0 and headroom h > 0; the amount is min(d, s, 0.8 h), so it exceeds *)
(* none of the three; in every other case the canal is left as it was.     *)
(***************************************************************************)
C3_TransferAmount ==
    (call.fn = "tryTransfer" /\ call.src # NULL /\ call.dst # NULL
        /\ call.canal # NULL) =>
        LET d == Deficit(regions[call.dst])
            s == SafeSurplus(regions[call.src])
            h == Headroom(regions[call.dst])
            a == call.handed.amount
        IN  /\ call.handed.called <=> (d > 0 /\ s > 0 /\ h > 0)
            /\ call.handed.called =>
                   /\ a > 0
                   /\ Scale * a = Min3(Scale * d, Scale * s, FloodFactor * h)
                   /\ a <= d /\ a <= s /\ Scale * a <= FloodFactor * h
            /\ ~call.handed.called => canals = call.before

\* the destination's headroom is what limits the amount handed on
C3_Witness ==
    /\ call.fn = "tryTransfer" /\ call.src # NULL /\ call.dst # NULL
    /\ call.canal # NULL
    /\ call.handed.called
    /\ call.handed.amount < Deficit(regions[call.dst])
    /\ call.handed.amount < SafeSurplus(regions[call.src])
    /\ canals[call.canal].isOpen /\ ~call.before[call.canal].isOpen

(***************************************************************************)
(* C4: scheduleTransfer on a present canal: an amount in (0, 3.6] sets the *)
(* flow-rate to amount/3.6 (<= 1.0) and opens the gate; an amount > 3.6    *)
(* sets the flow-rate to 1.0 and opens the gate; an amount <= 0 changes    *)
(* neither the flow-rate nor the gate.                                     *)
(***************************************************************************)
C4_FlowRate ==
    (call.fn = "scheduleTransfer" /\ call.canal # NULL) =>
        LET a     == call.amount
            after == canals[call.canal]
        IN  /\ (0 < a /\ a <= HourVolume) =>
                   /\ after.isOpen
                   /\ after.flowRate * HourVolume = a * MaxFlowRate
                   /\ after.flowRate <= MaxFlowRate
            /\ a > HourVolume =>
                   after.isOpen /\ after.flowRate = MaxFlowRate
            /\ a <= 0 => canals = call.before
            /\ \A i \in DOMAIN canals :
                   i # call.canal => canals[i] = call.before[i]

\* a closed canal opened at the clamped rate by an amount above 3.6
C4_Witness ==
    /\ call.fn = "scheduleTransfer" /\ call.canal # NULL
    /\ call.amount > HourVolume
    /\ ~call.before[call.canal].isOpen
    /\ call.before[call.canal].flowRate = 0
    /\ canals[call.canal].isOpen
    /\ canals[call.canal].flowRate = MaxFlowRate

(***************************************************************************)
(* C5: computeSafeSurplus returns a non-negative value: 0 when waterLevel  *)
(* <= max(0.8 waterNeed, 0.3 waterCapacity, waterNeed), and waterLevel     *)
(* minus that maximum otherwise, also when waterNeed > waterCapacity; an   *)
(* absent region yields 0.                                                 *)
(***************************************************************************)
C5_SafeSurplus ==
    call.fn = "computeSafeSurplus" =>
        /\ call.ret >= 0
        /\ call.r = NULL => call.ret = 0
        /\ call.r # NULL =>
               LET reg == regions[call.r]
                   lvl == Scale * reg.waterLevel
                   m0  == Max2(NeedFactor * reg.waterNeed,
                               CapFactor * reg.waterCapacity)
                   m   == Max2(m0, Scale * reg.waterNeed)
               IN  IF lvl <= m THEN call.ret = 0 ELSE call.ret = lvl - m

\* a positive surplus of a region whose need exceeds its capacity
C5_Witness ==
    /\ call.fn = "computeSafeSurplus" /\ call.r # NULL
    /\ call.ret > 0
    /\ regions[call.r].waterNeed > regions[call.r].waterCapacity

(***************************************************************************)
(* C6: the loop body (a decision pass, a nexthour call) runs only while    *)
(* the engine has not reported solved and hour has not reached             *)
(* SimulationMax.                                                          *)
(***************************************************************************)
C6_StopsAtLimit ==
    InPass => (~isSolved /\ hour < SimulationMax)

(***************************************************************************)
(* C7: every iteration performs, in this order and once each, the reset of *)
(* all canals, the attempts North->South, North->East, South->East,        *)
(* East->North, then one nexthour; between the reset and the last attempt  *)
(* neither the hour nor any region changes.                                *)
(***************************************************************************)
PassOps ==
    << <<"closeAllCanals">>, <<"north", "south">>, <<"north", "east">>,
       <<"south", "east">>, <<"east", "north">> >>

C7_PassOrder ==
    [][ /\ pc = "nexthour" =>
               ops = PassOps /\ hour' = hour + 1 /\ pc' = "while"
        /\ pc \in {"closeAllCanals", "tryTransfer"} =>
               /\ regions' = regions /\ hour' = hour /\ isSolved' = isSolved
               /\ Len(ops') = Len(ops) + 1
               /\ ops' = SubSeq(PassOps, 1, Len(ops'))
               /\ pc' \in {"tryTransfer", "nexthour"}
        /\ pc = "while" => pc' \in {"done", "closeAllCanals"} /\ ops' = <<>>
      ]_vars

\* a whole pass has run and opened a canal; the engine is about to advance
C7_Witness ==
    /\ pc = "nexthour" /\ ops = PassOps /\ hour > 0
    /\ \E i \in DOMAIN canals : canals[i].isOpen

(***************************************************************************)
(* C8: at every call of nexthour the setting of every canal of the         *)
(* collection is a function of the regions at the start of the hour: a     *)
(* canal that a role resolved to and whose attempt proposes a transfer is  *)
(* open at the rate of min(d, s, 0.8 h); every other canal is closed with  *)
(* flow-rate 0.                                                            *)
(***************************************************************************)
Scheduled(i) ==
    \E k \in DOMAIN Attempts :
        LET a == Attempts[k]
        IN  /\ canalOf(a.canal) = i
            /\ regionOf(a.src) # NULL /\ regionOf(a.dst) # NULL
            /\ Proposes(regions[regionOf(a.src)], regions[regionOf(a.dst)])

PlannedAmount(i) ==
    LET k == CHOOSE k \in DOMAIN Attempts : canalOf(Attempts[k].canal) = i
        srcReg == regions[regionOf(Attempts[k].src)]
        dstReg == regions[regionOf(Attempts[k].dst)]
    IN  Min3(Scale * Deficit(dstReg), Scale * SafeSurplus(srcReg),
             FloodFactor * Headroom(dstReg))

C8_FreshSettings ==
    pc = "nexthour" =>
        \A i \in DOMAIN canals :
            IF Scheduled(i)
                THEN /\ canals[i].isOpen
                     /\ canals[i].flowRate * HourVolume * Scale =
                            Min2(PlannedAmount(i), HourVolume * Scale) * MaxFlowRate
                ELSE ~canals[i].isOpen /\ canals[i].flowRate = 0

\* with hour past 0: a canal no role resolved to and a resolved canal are
\* closed at rate 0 while another canal is scheduled
C8_Witness ==
    /\ pc = "nexthour" /\ hour > 0
    /\ \E i, j, k \in DOMAIN canals :
           /\ canalKey(canals[i].name) = "none"
           /\ ~canals[i].isOpen /\ canals[i].flowRate = 0
           /\ canalKey(canals[j].name) # "none"
           /\ ~canals[j].isOpen /\ canals[j].flowRate = 0
           /\ canals[k].isOpen

(***************************************************************************)
(* C9: identity resolution does not depend on the order of the             *)
(* collections: every permutation of the regions and of the canals         *)
(* resolves the same region to North, South and East and the same canal to *)
(* each of the roles A, B, C, D.                                           *)
(***************************************************************************)
Perms(n) == {f \in [1..n -> 1..n] : Injective(f)}

regionAt(rs, r) == IF r = NULL THEN "absent" ELSE rs[r].name

canalAt(cs, c) == IF c = NULL THEN NULL ELSE cs[c].id

C9_OrderIndependent ==
    pc = "while" =>
        /\ \A f \in Perms(Len(regions)) :
               LET rs == [i \in 1..Len(regions) |-> regions[f[i]]]
               IN  /\ regionAt(rs, resolveRegion(rs, "North", 1, NULL))
                          = regionAt(regions, north)
                   /\ regionAt(rs, resolveRegion(rs, "South", 1, NULL))
                          = regionAt(regions, south)
                   /\ regionAt(rs, resolveRegion(rs, "East", 1, NULL))
                          = regionAt(regions, east)
        /\ \A g \in Perms(Len(canals)) :
               LET cs == [i \in 1..Len(canals) |-> canals[g[i]]]
               IN  /\ canalAt(cs, resolveCanal(cs, "A", 1, NULL))
                          = canalAt(canals, canalA)
                   /\ canalAt(cs, resolveCanal(cs, "B", 1, NULL))
                          = canalAt(canals, canalB)
                   /\ canalAt(cs, resolveCanal(cs, "C", 1, NULL))
                          = canalAt(canals, canalC)
                   /\ canalAt(cs, resolveCanal(cs, "D", 1, NULL))
                          = canalAt(canals, canalD)

(***************************************************************************)
(* C10: at every call of nexthour no region is both the source of an open  *)
(* canal and the destination of an open canal, and a region with positive  *)
(* safe surplus has no deficit.                                            *)
(***************************************************************************)
C10_NoThroughFlow ==
    pc = "nexthour" =>
        /\ ~(IsOpen(canalA) /\ IsOpen(canalB))
        /\ ~(IsOpen(canalC) /\ IsOpen(canalD))
        /\ ~(IsOpen(canalB) /\ IsOpen(canalD))
        /\ ~(IsOpen(canalD) /\ IsOpen(canalA))
        /\ \A i \in DOMAIN regions :
               computeSafeSurplus(regions, i) > 0 =>
                   computeDeficit(regions, i) = 0

\* two canals into East are open and East gives nothing
C10_Witness ==
    /\ pc = "nexthour"
    /\ IsOpen(canalC) /\ IsOpen(canalB) /\ ~IsOpen(canalD)

====
